---------------------------- MODULE Spec2Model ----------------------------
(***************************************************************************)
(* A model of the sudoku crate: the board and its validated construction   *)
(* (board.rs), the squares and their groups (square.rs), the cell-set      *)
(* bitboard (bitboard.rs), the used-number masks (used_mask.rs) and the    *)
(* search engine and generator (sudoku.rs).                                *)
(*                                                                         *)
(* The grid is BlockDim^2 x BlockDim^2.  The crate fixes BlockDim = 3; the *)
(* lookup tables of square.rs are written here as the arithmetic that      *)
(* produces them, so that the same definitions describe the 4 x 4 grid     *)
(* that is explored exhaustively.  Bit masks (u128 / u32 words) are        *)
(* modelled as the set of the positions of their 1 bits.                   *)
(***************************************************************************)
EXTENDS Integers, Sequences, FiniteSets, TLC

(***************************************************************************)
(* Bounds of the exploration.                                              *)
(*   BlockDim   side of a block (the crate: 3)                             *)
(*   MaxVacant  squares of the vacancy pool that an input may leave blank  *)
(*   MaxGiven   squares of an input that the caller writes freely          *)
(*   MaxPuts    calls of put() on one position                             *)
(*   MaxBudget  largest small node budget tried by is_solvable_limited     *)
(*   MaxNumbers numbers written in a text handed to Board::from_str        *)
(*   SquareChoices, NumberChoices                                          *)
(*              elements of an iterator, counted from its first, that the  *)
(*              random choose() of try_generate_solved may return          *)
(*   HintMid    a hint_min between 0 and the number of squares             *)
(***************************************************************************)
BlockDim == 2
MaxVacant == 5
MaxGiven == 1
MaxPuts == 2
MaxBudget == 6
MaxNumbers == 3
SquareChoices == 1
NumberChoices == 2
HintMid == 5

(***************************************************************************)
(* number.rs, square.rs: the range-limited value types.                    *)
(***************************************************************************)
Number_NUM == BlockDim * BlockDim
Col_NUM == Number_NUM
Row_NUM == Number_NUM
Block_NUM == Number_NUM
Square_NUM == Row_NUM * Col_NUM

Numbers == 1 .. Number_NUM
Squares == 0 .. (Square_NUM - 1)
Cols == 0 .. (Col_NUM - 1)
Rows == 0 .. (Row_NUM - 1)
Blocks == 0 .. (Block_NUM - 1)

\* Option<Number>::None as stored in a board cell (the text format's 0).
NoNumber == 0

Number_MIN_VALUE == 1
Number_MAX_VALUE == Number_NUM

Square_col(sq) == sq % Col_NUM
Square_row(sq) == sq \div Col_NUM
Square_block(sq) ==
    (Square_row(sq) \div BlockDim) * BlockDim + (Square_col(sq) \div BlockDim)

Square_from_col_row(col, row) == Col_NUM * row + col

Square_all == [i \in 1 .. Square_NUM |-> i - 1]
Col_all == [i \in 1 .. Col_NUM |-> i - 1]
Row_all == [i \in 1 .. Row_NUM |-> i - 1]
Block_all == [i \in 1 .. Block_NUM |-> i - 1]

Square_col_all(col) == [i \in 1 .. Row_NUM |-> col + Col_NUM * (i - 1)]
Square_row_all(row) == [i \in 1 .. Col_NUM |-> Col_NUM * row + (i - 1)]

BASE_TABLE(block) ==
    (block \div BlockDim) * BlockDim * Col_NUM + (block % BlockDim) * BlockDim
OFFSET_TABLE(i) == (i \div BlockDim) * Col_NUM + (i % BlockDim)
Square_block_all(block) ==
    [i \in 1 .. Number_NUM |-> BASE_TABLE(block) + OFFSET_TABLE(i - 1)]

(***************************************************************************)
(* bitboard.rs: a set of squares in one word.                              *)
(***************************************************************************)
\* trailing_zeros() of a non-zero word: the position of its lowest 1 bit,
\* found by scanning up from bit i.
RECURSIVE trailing_zeros_from(_, _)
trailing_zeros_from(word, i) ==
    IF i \in word THEN i ELSE trailing_zeros_from(word, i + 1)

trailing_zeros(word) == trailing_zeros_from(word, 0)

Bitboard_empty == {}
Bitboard_full == 0 .. (Square_NUM - 1)
Bitboard_is_zero(bb) == bb = {}
Bitboard_add(bb, sq) == bb \cup {sq}
Bitboard_remove(bb, sq) == bb \ {sq}

\* pop(): Option<Square> and the word after the call.
Bitboard_pop(bb) ==
    IF bb # {}
      THEN LET i == trailing_zeros(bb) IN [some |-> TRUE, sq |-> i, bb |-> bb \ {i}]
      ELSE [some |-> FALSE, sq |-> 0, bb |-> bb]

\* iter(): the squares in the order repeated pop() yields them.
RECURSIVE Bitboard_iter(_)
Bitboard_iter(bb) ==
    LET p == Bitboard_pop(bb)
    IN  IF p.some THEN <<p.sq>> \o Bitboard_iter(p.bb) ELSE <<>>

(***************************************************************************)
(* used_mask.rs: a 1 bit at 9*i + num - 1 means num is unused in group i.  *)
(***************************************************************************)
UsedMask_all_used == {}
UsedMask_all_unused == 0 .. (Square_NUM - 1)
UsedMask_use_number(m, i, num) == m \ {Number_NUM * i + num - 1}
UsedMask_unuse_number(m, i, num) == m \cup {Number_NUM * i + num - 1}

UsedMasks_all_unused ==
    [col_mask |-> UsedMask_all_unused,
     row_mask |-> UsedMask_all_unused,
     block_mask |-> UsedMask_all_unused]

UsedMasks_use_number(um, sq, num) ==
    [col_mask |-> UsedMask_use_number(um.col_mask, Square_col(sq), num),
     row_mask |-> UsedMask_use_number(um.row_mask, Square_row(sq), num),
     block_mask |-> UsedMask_use_number(um.block_mask, Square_block(sq), num)]

UsedMasks_unuse_number(um, sq, num) ==
    [col_mask |-> UsedMask_unuse_number(um.col_mask, Square_col(sq), num),
     row_mask |-> UsedMask_unuse_number(um.row_mask, Square_row(sq), num),
     block_mask |-> UsedMask_unuse_number(um.block_mask, Square_block(sq), num)]

\* Bit b of (word >> k) is bit b + k of word; candidate_mask keeps the bits
\* below Number_NUM that are 1 in all three shifted words.
MASK_NUMS == 0 .. (Number_NUM - 1)
ShiftedBit(word, k, b) == (b + k) \in word

candidate_mask(um, sq) ==
    {b \in MASK_NUMS :
        /\ ShiftedBit(um.col_mask, Number_NUM * Square_col(sq), b)
        /\ ShiftedBit(um.row_mask, Number_NUM * Square_row(sq), b)
        /\ ShiftedBit(um.block_mask, Number_NUM * Square_block(sq), b)}

is_legal(um, sq, num) == (num - 1) \in candidate_mask(um, sq)

\* candidates(): the numbers in the order the trailing_zeros loop yields them.
RECURSIVE MaskNumbers(_)
MaskNumbers(mask) ==
    IF mask # {}
      THEN LET i == trailing_zeros(mask) IN <<i + 1>> \o MaskNumbers(mask \ {i})
      ELSE <<>>

candidates(um, sq) == MaskNumbers(candidate_mask(um, sq))

candidate_count(um, sq) == Cardinality(candidate_mask(um, sq))

(***************************************************************************)
(* board.rs: the board and its validated construction.                     *)
(***************************************************************************)
Board_empty == [sq \in Squares |-> NoNumber]

\* The closure is_ok of Board::new: scan sqs from position i with the bits
\* seen so far; a repeated bit ends the scan with false.
RECURSIVE is_ok_from(_, _, _, _)
RECURSIVE is_ok_from_overwrites_mask(_, _, _, _)
\* Mutant: the mask keeps only the last number seen (mask = bit).
is_ok_from_overwrites_mask(inner, sqs, i, mask) ==
    IF i > Len(sqs) THEN TRUE
    ELSE LET num == inner[sqs[i]]
         IN  IF num = NoNumber THEN is_ok_from_overwrites_mask(inner, sqs, i + 1, mask)
             ELSE IF num \in mask THEN FALSE
             ELSE is_ok_from_overwrites_mask(inner, sqs, i + 1, {num})

is_ok_from(inner, sqs, i, mask) ==
    IF i > Len(sqs) THEN TRUE
    ELSE LET num == inner[sqs[i]]
         IN  IF num = NoNumber THEN is_ok_from(inner, sqs, i + 1, mask)
             ELSE IF num \in mask THEN FALSE
             ELSE is_ok_from(inner, sqs, i + 1, mask \cup {num})

is_ok(inner, sqs) == is_ok_from(inner, sqs, 1, {})

\* Board::new: Ok(board) or the first failing ensure!.
Board_new(inner) ==
    LET bad_cols == {c \in Cols : ~is_ok(inner, Square_col_all(c))}
        bad_rows == {r \in Rows : ~is_ok(inner, Square_row_all(r))}
        bad_blocks == {b \in Blocks : ~is_ok(inner, Square_block_all(b))}
        first(S) == CHOOSE x \in S : \A y \in S : x <= y
    IN  IF bad_cols # {} THEN [ok |-> FALSE, err |-> <<"col is illegal", first(bad_cols)>>]
        ELSE IF bad_rows # {} THEN [ok |-> FALSE, err |-> <<"row is illegal", first(bad_rows)>>]
        ELSE IF bad_blocks # {}
          THEN [ok |-> FALSE, err |-> <<"block is illegal", first(bad_blocks)>>]
        ELSE [ok |-> TRUE, board |-> inner]

Board_is_solved(board) == \A sq \in Squares : board[sq] # NoNumber


(***************************************************************************)
(* sudoku.rs: a position is a board with the masks of its used numbers.    *)
(***************************************************************************)
put_number(s, sq, num) ==
    [board |-> [s.board EXCEPT ![sq] = num],
     used_masks |-> UsedMasks_use_number(s.used_masks, sq, num)]

\* Mutant: the square is cleared but the masks keep num as used.
remove_number_board_only(s, sq, num) ==
    [board |-> [s.board EXCEPT ![sq] = NoNumber], used_masks |-> s.used_masks]

remove_number(s, sq, num) ==
    [board |-> [s.board EXCEPT ![sq] = NoNumber],
     used_masks |-> UsedMasks_unuse_number(s.used_masks, sq, num)]

\* Sudoku::new: use_number for every filled square, in Square::all() order.
RECURSIVE new_from(_, _, _)
new_from(board, i, um) ==
    IF i > Len(Square_all) THEN um
    ELSE LET sq == Square_all[i]
         IN  IF board[sq] # NoNumber
               THEN new_from(board, i + 1, UsedMasks_use_number(um, sq, board[sq]))
               ELSE new_from(board, i + 1, um)

Sudoku_new(board) ==
    [board |-> board, used_masks |-> new_from(board, 1, UsedMasks_all_unused)]

Sudoku_is_solved(s) == Board_is_solved(s.board)

\* put(): the position after the call and the returned flag.
Sudoku_put(s, sq, num) ==
    IF ~is_legal(s.used_masks, sq, num)
      THEN [sudoku |-> s, ret |-> FALSE]
      ELSE [sudoku |-> put_number(s, sq, num), ret |-> TRUE]

calc_bb_vacant(board) ==
    LET vacant == SelectSeq(Square_all, LAMBDA sq : board[sq] = NoNumber)
        add[i \in 0 .. Len(vacant)] ==
            IF i = 0 THEN Bitboard_empty ELSE Bitboard_add(add[i - 1], vacant[i])
    IN  add[Len(vacant)]

\* Iterator::min_by_key: the first element with the least key.
RECURSIVE min_by_key_from(_, _, _, _, _)
RECURSIVE min_by_key_from_keeps_last(_, _, _, _, _)
\* Mutant: an equal key replaces the best so far (the last least element).
min_by_key_from_keeps_last(um, sqs, i, best, best_key) ==
    IF i > Len(sqs) THEN best
    ELSE LET key == candidate_count(um, sqs[i])
         IN  IF key <= best_key
               THEN min_by_key_from_keeps_last(um, sqs, i + 1, sqs[i], key)
               ELSE min_by_key_from_keeps_last(um, sqs, i + 1, best, best_key)

min_by_key_from(um, sqs, i, best, best_key) ==
    IF i > Len(sqs) THEN best
    ELSE LET key == candidate_count(um, sqs[i])
         IN  IF key < best_key
               THEN min_by_key_from(um, sqs, i + 1, sqs[i], key)
               ELSE min_by_key_from(um, sqs, i + 1, best, best_key)

pop_best_vacant_square(s, bb_vacant) ==
    LET sqs == Bitboard_iter(bb_vacant)
    IN  IF sqs = <<>>
          THEN [some |-> FALSE, sq |-> 0, bb |-> bb_vacant]
          ELSE LET sq == min_by_key_from(s.used_masks, sqs, 2, sqs[1],
                                         candidate_count(s.used_masks, sqs[1]))
               IN  [some |-> TRUE, sq |-> sq, bb |-> Bitboard_remove(bb_vacant, sq)]

\* solve_impl: [sudoku, ret]; solve_loop is its for loop from candidate i on.
RECURSIVE solve_impl(_, _)
RECURSIVE solve_loop(_, _, _, _, _)
RECURSIVE solve_loop_always_undoes(_, _, _, _, _)
\* Mutant: the placement is undone after a successful recursive call too.
solve_loop_always_undoes(s, bb_vacant, sq, nums, i) ==
    IF i > Len(nums) THEN [sudoku |-> s, ret |-> FALSE]
    ELSE LET r == solve_impl(put_number(s, sq, nums[i]), bb_vacant)
             s1 == remove_number(r.sudoku, sq, nums[i])
         IN  IF r.ret THEN [sudoku |-> s1, ret |-> TRUE]
             ELSE solve_loop_always_undoes(s1, bb_vacant, sq, nums, i + 1)

solve_loop(s, bb_vacant, sq, nums, i) ==
    IF i > Len(nums) THEN [sudoku |-> s, ret |-> FALSE]
    ELSE LET r == solve_impl(put_number(s, sq, nums[i]), bb_vacant)
         IN  IF r.ret THEN r
             ELSE solve_loop(remove_number(r.sudoku, sq, nums[i]), bb_vacant, sq, nums, i + 1)

solve_impl(s, bb_vacant) ==
    LET p == pop_best_vacant_square(s, bb_vacant)
    IN  IF ~p.some THEN [sudoku |-> s, ret |-> TRUE]
        ELSE solve_loop(s, p.bb, p.sq, candidates(s.used_masks, p.sq), 1)

Sudoku_solve(s) == solve_impl(s, calc_bb_vacant(s.board))

\* is_solvable_impl: [sudoku, ret, nodes]; nodes counts the entries made.
RECURSIVE is_solvable_impl(_, _, _)
RECURSIVE is_solvable_loop(_, _, _, _, _, _)
RECURSIVE is_solvable_loop_keeps_success(_, _, _, _, _, _)
\* Mutant: a successful placement is returned without being removed.
is_solvable_loop_keeps_success(s, bb_vacant, sq, nums, i, n) ==
    IF i > Len(nums) THEN [sudoku |-> s, ret |-> FALSE, nodes |-> n]
    ELSE LET r == is_solvable_impl(put_number(s, sq, nums[i]), bb_vacant, n)
         IN  IF r.ret THEN r
             ELSE is_solvable_loop_keeps_success(
                      remove_number(r.sudoku, sq, nums[i]), bb_vacant, sq, nums, i + 1, r.nodes)

is_solvable_loop(s, bb_vacant, sq, nums, i, n) ==
    IF i > Len(nums) THEN [sudoku |-> s, ret |-> FALSE, nodes |-> n]
    ELSE LET r == is_solvable_impl(put_number(s, sq, nums[i]), bb_vacant, n)
             s1 == remove_number(r.sudoku, sq, nums[i])
         IN  IF r.ret THEN [sudoku |-> s1, ret |-> TRUE, nodes |-> r.nodes]
             ELSE is_solvable_loop(s1, bb_vacant, sq, nums, i + 1, r.nodes)

is_solvable_impl(s, bb_vacant, n) ==
    LET p == pop_best_vacant_square(s, bb_vacant)
    IN  IF ~p.some THEN [sudoku |-> s, ret |-> TRUE, nodes |-> n + 1]
        ELSE is_solvable_loop(s, p.bb, p.sq, candidates(s.used_masks, p.sq), 1, n + 1)

Sudoku_is_solvable(s) == is_solvable_impl(s, calc_bb_vacant(s.board), 0)

\* is_unique_solvable_impl: Search::search threads [sudoku, count].
RECURSIVE unique_search(_, _)
RECURSIVE unique_loop(_, _, _, _, _)
RECURSIVE unique_loop_stops_at_one(_, _, _, _, _)
\* Mutant: the loop returns as soon as one completion is counted.
unique_loop_stops_at_one(search, bb_vacant, sq, nums, i) ==
    IF i > Len(nums) THEN search
    ELSE LET r == unique_search(
                      [sudoku |-> put_number(search.sudoku, sq, nums[i]),
                       count |-> search.count], bb_vacant)
             r1 == [sudoku |-> remove_number(r.sudoku, sq, nums[i]), count |-> r.count]
         IN  IF r1.count >= 1 THEN r1
             ELSE unique_loop_stops_at_one(r1, bb_vacant, sq, nums, i + 1)

unique_loop(search, bb_vacant, sq, nums, i) ==
    IF i > Len(nums) THEN search
    ELSE LET r == unique_search(
                      [sudoku |-> put_number(search.sudoku, sq, nums[i]),
                       count |-> search.count], bb_vacant)
             r1 == [sudoku |-> remove_number(r.sudoku, sq, nums[i]), count |-> r.count]
         IN  IF r1.count >= 2 THEN r1
             ELSE unique_loop(r1, bb_vacant, sq, nums, i + 1)

unique_search(search, bb_vacant) ==
    LET p == pop_best_vacant_square(search.sudoku, bb_vacant)
    IN  IF ~p.some THEN [sudoku |-> search.sudoku, count |-> search.count + 1]
        ELSE unique_loop(search, p.bb, p.sq, candidates(search.sudoku.used_masks, p.sq), 1)

Sudoku_is_unique_solvable(s) ==
    LET search == unique_search([sudoku |-> s, count |-> 0], calc_bb_vacant(s.board))
    IN  [sudoku |-> search.sudoku, ret |-> (search.count = 1), count |-> search.count]

\* is_solvable_limited: Search::search_impl threads [sudoku, node_count] and
\* returns Option<bool>.
SomeTrue == "Some(true)"
SomeFalse == "Some(false)"
OptNone == "None"

RECURSIVE search_impl(_, _, _)
RECURSIVE search_loop(_, _, _, _, _, _)
RECURSIVE search_loop_aborts_before_undo(_, _, _, _, _, _)
\* Mutant: a None from below is passed up before the placement is removed.
search_loop_aborts_before_undo(search, node_count_max, bb_vacant, sq, nums, i) ==
    IF i > Len(nums) THEN [search |-> search, ret |-> SomeFalse]
    ELSE LET r == search_impl(
                      [sudoku |-> put_number(search.sudoku, sq, nums[i]),
                       node_count |-> search.node_count], node_count_max, bb_vacant)
             s1 == [sudoku |-> remove_number(r.search.sudoku, sq, nums[i]),
                    node_count |-> r.search.node_count]
         IN  IF r.ret = OptNone THEN r
             ELSE IF r.ret # SomeFalse THEN [search |-> s1, ret |-> r.ret]
             ELSE search_loop_aborts_before_undo(s1, node_count_max, bb_vacant, sq, nums, i + 1)

search_loop(search, node_count_max, bb_vacant, sq, nums, i) ==
    IF i > Len(nums) THEN [search |-> search, ret |-> SomeFalse]
    ELSE LET r == search_impl(
                      [sudoku |-> put_number(search.sudoku, sq, nums[i]),
                       node_count |-> search.node_count], node_count_max, bb_vacant)
             s1 == [sudoku |-> remove_number(r.search.sudoku, sq, nums[i]),
                    node_count |-> r.search.node_count]
         IN  IF r.ret # SomeFalse THEN [search |-> s1, ret |-> r.ret]
             ELSE search_loop(s1, node_count_max, bb_vacant, sq, nums, i + 1)

\* Mutant: the budget test is > instead of >=.
search_impl_off_by_one(search, node_count_max, bb_vacant) ==
    LET entered == [sudoku |-> search.sudoku, node_count |-> search.node_count + 1]
    IN  IF entered.node_count > node_count_max
          THEN [search |-> entered, ret |-> OptNone]
          ELSE LET p == pop_best_vacant_square(entered.sudoku, bb_vacant)
               IN  IF ~p.some THEN [search |-> entered, ret |-> SomeTrue]
                   ELSE search_loop(entered, node_count_max, p.bb, p.sq,
                                    candidates(entered.sudoku.used_masks, p.sq), 1)

search_impl(search, node_count_max, bb_vacant) ==
    LET entered == [sudoku |-> search.sudoku, node_count |-> search.node_count + 1]
    IN  IF entered.node_count >= node_count_max
          THEN [search |-> entered, ret |-> OptNone]
          ELSE LET p == pop_best_vacant_square(entered.sudoku, bb_vacant)
               IN  IF ~p.some THEN [search |-> entered, ret |-> SomeTrue]
                   ELSE search_loop(entered, node_count_max, p.bb, p.sq,
                                    candidates(entered.sudoku.used_masks, p.sq), 1)

Sudoku_is_solvable_limited(s, node_count_max) ==
    LET r == search_impl([sudoku |-> s, node_count |-> 0], node_count_max,
                         calc_bb_vacant(s.board))
    IN  [sudoku |-> r.search.sudoku, ret |-> r.ret, node_count |-> r.search.node_count]




(***************************************************************************)
(* The engine under its callers (examples/solve.rs): an input array is     *)
(* validated by Board::new and wrapped by Sudoku::new; then the operations *)
(* are called on the position in any order.  While a call's result is held *)
(* by the caller, op names the call, arg its arguments, ret its result,    *)
(* nodes the recursive entries it made and pre the position it was called  *)
(* on; Return hands control back.                                          *)
(*                                                                         *)
(* parse is the state of a Board::from_str call and gen the state of a     *)
(* Sudoku::generate_unique call; each is explored by a specification of    *)
(* its own and stands still in the others; so is pop, the state of a call  *)
(* of Sudoku::pop_best_vacant_square.                                      *)
(***************************************************************************)
VARIABLES sudoku, op, arg, ret, nodes, pre, puts, parse, gen, pop

vars == <<sudoku, op, arg, ret, nodes, pre, puts, parse, gen, pop>>

engine_vars == <<sudoku, op, arg, ret, nodes, pre, puts>>

NotCalled == [pc |-> "not called"]

\* The budget try_generate_solved passes to is_solvable_limited.
NODE_COUNT_MAX == 1000000

\* A solved grid: row r is the numbers shifted by BlockDim * (r % BlockDim)
\* + r \div BlockDim.
BaseGrid ==
    [sq \in Squares |->
        ((BlockDim * (Square_row(sq) % BlockDim) + (Square_row(sq) \div BlockDim)
          + Square_col(sq)) % Number_NUM) + 1]

\* The squares an input may leave blank: the first MaxVacant squares of the
\* top band, taken column by column, every other column first.
VacancyOrder ==
    [i \in 1 .. (BlockDim * Col_NUM) |->
        LET k == i - 1
            row == k % BlockDim
            j == k \div BlockDim
            col == IF 2 * j < Col_NUM THEN 2 * j ELSE 2 * j - Col_NUM + 1 - (Col_NUM % 2)
        IN  Square_from_col_row(col, row)]

VacancyPool == {VacancyOrder[i] : i \in 1 .. MaxVacant}

\* The squares the caller writes, in an input and by put().
PutSquares == {0, 6, 11, 13}

Blanked(V) == [sq \in Squares |-> IF sq \in V THEN NoNumber ELSE BaseGrid[sq]]

RECURSIVE Given(_, _)
Given(boards, k) ==
    IF k = 0 THEN boards
    ELSE Given(boards \cup {[b EXCEPT ![sq] = num] :
                               b \in boards, sq \in PutSquares, num \in Numbers},
               k - 1)

\* The arrays handed to Board::new: the empty array and the solved grid with
\* pool squares blanked, each with up to MaxGiven squares rewritten.
Inputs ==
    Given({Board_empty} \cup {Blanked(V) : V \in SUBSET VacancyPool}, MaxGiven)

Budgets == (0 .. MaxBudget) \cup {NODE_COUNT_MAX}

BoolStr(b) == IF b THEN "true" ELSE "false"
OptStr(o) == IF o = SomeTrue THEN "true" ELSE IF o = SomeFalse THEN "false" ELSE "None"

Idle == op = "idle"

Init ==
    \E inner \in Inputs :
        /\ Board_new(inner).ok
        /\ sudoku = Sudoku_new(Board_new(inner).board)
        /\ pre = sudoku
        /\ op = "new"
        /\ arg = inner
        /\ ret = "-"
        /\ nodes = 0
        /\ puts = 0
        /\ parse = NotCalled
        /\ gen = NotCalled
        /\ pop = NotCalled

Put(sq, num) ==
    /\ Idle
    /\ puts < MaxPuts
    /\ LET r == Sudoku_put(sudoku, sq, num)
       IN  /\ sudoku' = r.sudoku
           /\ ret' = BoolStr(r.ret)
    /\ pre' = sudoku
    /\ op' = "put"
    /\ arg' = <<sq, num>>
    /\ nodes' = 0
    /\ puts' = puts + 1
    /\ UNCHANGED <<parse, gen, pop>>

Solve ==
    /\ Idle
    /\ LET r == Sudoku_solve(sudoku)
       IN  /\ sudoku' = r.sudoku
           /\ ret' = BoolStr(r.ret)
    /\ pre' = sudoku
    /\ op' = "solve"
    /\ arg' = <<>>
    /\ nodes' = 0
    /\ UNCHANGED <<puts, parse, gen, pop>>

IsSolvable ==
    /\ Idle
    /\ LET r == Sudoku_is_solvable(sudoku)
       IN  /\ sudoku' = r.sudoku
           /\ ret' = BoolStr(r.ret)
           /\ nodes' = r.nodes
    /\ pre' = sudoku
    /\ op' = "is_solvable"
    /\ arg' = <<>>
    /\ UNCHANGED <<puts, parse, gen, pop>>

IsUniqueSolvable ==
    /\ Idle
    /\ LET r == Sudoku_is_unique_solvable(sudoku)
       IN  /\ sudoku' = r.sudoku
           /\ ret' = BoolStr(r.ret)
    /\ pre' = sudoku
    /\ op' = "is_unique_solvable"
    /\ arg' = <<>>
    /\ nodes' = 0
    /\ UNCHANGED <<puts, parse, gen, pop>>

IsSolvableLimited(node_count_max) ==
    /\ Idle
    /\ LET r == Sudoku_is_solvable_limited(sudoku, node_count_max)
       IN  /\ sudoku' = r.sudoku
           /\ ret' = OptStr(r.ret)
           /\ nodes' = r.node_count
    /\ pre' = sudoku
    /\ op' = "is_solvable_limited"
    /\ arg' = node_count_max
    /\ UNCHANGED <<puts, parse, gen, pop>>

Return ==
    /\ ~Idle
    /\ op' = "idle"
    /\ arg' = <<>>
    /\ ret' = "-"
    /\ nodes' = 0
    /\ pre' = sudoku
    /\ UNCHANGED <<sudoku, puts, parse, gen, pop>>

Next ==
    \/ \E sq \in PutSquares, num \in Numbers : Put(sq, num)
    \/ Solve
    \/ IsSolvable
    \/ IsUniqueSolvable
    \/ \E node_count_max \in Budgets : IsSolvableLimited(node_count_max)
    \/ Return

Spec == Init /\ [][Next]_vars

(***************************************************************************)
(* Board::from_str (the parser of examples/solve.rs): the text is a        *)
(* sequence of characters; parse records the text and, once the call has   *)
(* returned, the array it filled, whether it reached Board::new, and the   *)
(* Result.                                                                 *)
(***************************************************************************)
DigitChars == <<"0", "1", "2", "3", "4", "5", "6", "7", "8", "9">>

is_ascii_whitespace(c) == c \in {" ", "\n", "\t", "\r", "\f"}

is_digit_char(c) == \E k \in 1 .. Len(DigitChars) : DigitChars[k] = c

to_digit(c) == (CHOOSE k \in 1 .. Len(DigitChars) : DigitChars[k] = c) - 1

\* Number::new: Some(inner) within MIN_VALUE ..= MAX_VALUE, else None.
Number_new(inner) ==
    IF Number_MIN_VALUE <= inner /\ inner <= Number_MAX_VALUE THEN inner ELSE NoNumber

\* The loop of from_str from character k of s, with i numbers read into inner.
RECURSIVE from_str_loop(_, _, _, _)
from_str_loop(s, k, i, inner) ==
    IF k > Len(s)
      THEN IF i = Square_NUM
             THEN [ret |-> Board_new(inner), inner |-> inner, validated |-> TRUE]
             ELSE [ret |-> [ok |-> FALSE, err |-> <<"too few numbers">>],
                   inner |-> inner, validated |-> FALSE]
    ELSE IF is_ascii_whitespace(s[k]) THEN from_str_loop(s, k + 1, i, inner)
    ELSE IF ~(i < Square_NUM)
      THEN [ret |-> [ok |-> FALSE, err |-> <<"too many numbers">>],
            inner |-> inner, validated |-> FALSE]
    ELSE IF ~is_digit_char(s[k])
      THEN [ret |-> [ok |-> FALSE, err |-> <<"invalid char", s[k]>>],
            inner |-> inner, validated |-> FALSE]
    ELSE from_str_loop(s, k + 1, i + 1, [inner EXCEPT ![i] = Number_new(to_digit(s[k]))])

Board_from_str(s) == from_str_loop(s, 1, 0, Board_empty)

\* Display for Board: rows of numbers separated by blanks, 0 for no number.
RECURSIVE Board_fmt_from(_, _)
Board_fmt_from(board, sq) ==
    IF sq = Square_NUM THEN <<>>
    ELSE (IF Square_col(sq) # 0 THEN <<" ">> ELSE <<>>)
         \o <<DigitChars[board[Square_from_col_row(Square_col(sq), Square_row(sq))] + 1]>>
         \o (IF Square_col(sq) = Col_NUM - 1 THEN <<"\n">> ELSE <<>>)
         \o Board_fmt_from(board, sq + 1)

Board_fmt(board) == Board_fmt_from(board, 0)

\* The arrays with at most k numbers written.
RECURSIVE Written(_)
Written(k) ==
    IF k = 0 THEN {Board_empty}
    ELSE LET W == Written(k - 1)
         IN  W \cup {[b EXCEPT ![sq] = num] : b \in W, sq \in Squares, num \in Numbers}

PlainText(board) == [k \in 1 .. Square_NUM |-> DigitChars[board[k - 1] + 1]]

\* The texts handed to from_str: every array with at most MaxNumbers numbers
\* as its Square_NUM digits; and, of the arrays with at most one number, the
\* Display text, the digits cut short, the digits with one more, the digits
\* with a letter, and the digits with a 9.
Texts ==
    {PlainText(b) : b \in Written(MaxNumbers)}
    \cup {Board_fmt(b) : b \in Written(1)}
    \cup {SubSeq(PlainText(b), 1, Square_NUM - 1) : b \in Written(1)}
    \cup {PlainText(b) \o <<"1">> : b \in Written(1)}
    \cup {[PlainText(b) EXCEPT ![BlockDim] = "x"] : b \in Written(1)}
    \cup {[PlainText(b) EXCEPT ![Square_NUM] = "9"] : b \in Written(1)}

EngineNotCalled ==
    /\ sudoku = Sudoku_new(Board_empty)
    /\ pre = sudoku
    /\ op = "not called"
    /\ arg = <<>>
    /\ ret = "-"
    /\ nodes = 0
    /\ puts = 0

InitBoard ==
    /\ EngineNotCalled
    /\ gen = NotCalled
    /\ pop = NotCalled
    /\ \E s \in Texts : parse = [pc |-> "call", s |-> s]

FromStr ==
    /\ parse.pc = "call"
    /\ LET r == Board_from_str(parse.s)
       IN  parse' = [pc |-> "returned", s |-> parse.s, inner |-> r.inner,
                     validated |-> r.validated, ret |-> r.ret]
    /\ UNCHANGED <<engine_vars, gen, pop>>

NextBoard == FromStr

SpecBoard == InitBoard /\ [][NextBoard]_vars

(***************************************************************************)
(* Sudoku::generate_unique(hint_min) (examples/generate.rs).  gen holds    *)
(* the locals of the call.  While pc is "try_generate_solved" they are the *)
(* sudoku and bb_vacant of try_generate_solved, one action per iteration   *)
(* of its while loop; while pc is "remove" they are the sudoku, solution,  *)
(* hint and the squares not yet visited of the for loop of                 *)
(* generate_unique, one action per iteration; "returned" holds the pair    *)
(* returned.  The random generator is a choice in each action.             *)
(***************************************************************************)
HintMins == {0, HintMid, Square_NUM, Square_NUM + 1}

Reversed(seq) == [i \in 1 .. Len(seq) |-> seq[Len(seq) + 1 - i]]

\* Square::all() read column by column.
Transposed ==
    [i \in 1 .. Square_NUM |->
        Square_from_col_row((i - 1) \div Row_NUM, (i - 1) % Row_NUM)]

\* The orders sqs.shuffle(rng) may leave.
Shuffles == {Square_all, Reversed(Square_all), Transposed, Reversed(Transposed)}

\* The elements iter.choose(rng) may return: the first k of the iterator.
Choices(seq, k) == {seq[i] : i \in 1 .. (IF Len(seq) < k THEN Len(seq) ELSE k)}

\* last records what the latest iteration drew and what is_solvable_limited
\* answered.
TryStart(hint_min) ==
    [pc |-> "try_generate_solved", hint_min |-> hint_min,
     sudoku |-> Sudoku_new(Board_empty), bb_vacant |-> Bitboard_full,
     last |-> [drawn |-> FALSE]]

\* Mutant: an undone placement does not give its square back to bb_vacant.
try_step_keeps_vacant(g, sq, num) ==
    LET s1 == put_number(g.sudoku, sq, num)
        bb1 == Bitboard_remove(g.bb_vacant, sq)
        r == Sudoku_is_solvable_limited(s1, NODE_COUNT_MAX)
    IN  IF r.ret = OptNone THEN TryStart(g.hint_min)
        ELSE IF r.ret = SomeFalse
          THEN [g EXCEPT !.sudoku = remove_number(r.sudoku, sq, num),
                         !.bb_vacant = bb1,
                         !.last = [drawn |-> TRUE, sq |-> sq, num |-> num, ok |-> FALSE]]
        ELSE [g EXCEPT !.sudoku = r.sudoku, !.bb_vacant = bb1,
                       !.last = [drawn |-> TRUE, sq |-> sq, num |-> num, ok |-> TRUE]]

\* The body of the while loop of try_generate_solved once sq and num are
\* drawn, on the locals g.
try_step(g, sq, num) ==
    LET s1 == put_number(g.sudoku, sq, num)
        bb1 == Bitboard_remove(g.bb_vacant, sq)
        r == Sudoku_is_solvable_limited(s1, NODE_COUNT_MAX)
    IN  IF r.ret = OptNone THEN TryStart(g.hint_min)
        ELSE IF r.ret = SomeFalse
          THEN [g EXCEPT !.sudoku = remove_number(r.sudoku, sq, num),
                         !.bb_vacant = Bitboard_add(bb1, sq),
                         !.last = [drawn |-> TRUE, sq |-> sq, num |-> num, ok |-> FALSE]]
        ELSE [g EXCEPT !.sudoku = r.sudoku, !.bb_vacant = bb1,
                       !.last = [drawn |-> TRUE, sq |-> sq, num |-> num, ok |-> TRUE]]

\* The test that breaks the for loop of generate_unique.
hint_reached_below(hint, hint_min) == hint < hint_min

hint_reached(hint, hint_min) == hint <= hint_min

\* The for loop over the other candidates of sq: found, with the position.
RECURSIVE find_other(_, _, _, _, _)
RECURSIVE find_other_ignores_result(_, _, _, _, _)
RECURSIVE find_other_tries_removed_too(_, _, _, _, _)
\* Mutant: the removed number is not filtered out of the candidates.
find_other_tries_removed_too(s, sq, num, nums, i) ==
    IF i > Len(nums) THEN [sudoku |-> s, found |-> FALSE]
    ELSE LET r == Sudoku_is_solvable(put_number(s, sq, nums[i]))
             s1 == remove_number(r.sudoku, sq, nums[i])
         IN  IF r.ret THEN [sudoku |-> s1, found |-> TRUE]
             ELSE find_other_tries_removed_too(s1, sq, num, nums, i + 1)

\* Mutant: the result of is_solvable() is dropped and the loop runs on.
find_other_ignores_result(s, sq, num, nums, i) ==
    IF i > Len(nums) THEN [sudoku |-> s, found |-> FALSE]
    ELSE IF nums[i] = num THEN find_other_ignores_result(s, sq, num, nums, i + 1)
    ELSE LET r == Sudoku_is_solvable(put_number(s, sq, nums[i]))
             s1 == remove_number(r.sudoku, sq, nums[i])
         IN  find_other_ignores_result(s1, sq, num, nums, i + 1)

find_other(s, sq, num, nums, i) ==
    IF i > Len(nums) THEN [sudoku |-> s, found |-> FALSE]
    ELSE IF nums[i] = num THEN find_other(s, sq, num, nums, i + 1)
    ELSE LET r == Sudoku_is_solvable(put_number(s, sq, nums[i]))
             s1 == remove_number(r.sudoku, sq, nums[i])
         IN  IF r.ret THEN [sudoku |-> s1, found |-> TRUE]
             ELSE find_other(s1, sq, num, nums, i + 1)

\* Mutant: hint is decremented also when the number is put back.
remove_step_always_counts(g, sq, num) ==
    LET s1 == remove_number(g.sudoku, sq, num)
        r == find_other(s1, sq, num, candidates(s1.used_masks, sq), 1)
    IN  IF r.found
          THEN [g EXCEPT !.sudoku = put_number(r.sudoku, sq, num),
                         !.hint = g.hint - 1,
                         !.sqs = Tail(g.sqs)]
          ELSE [g EXCEPT !.sudoku = r.sudoku,
                         !.hint = g.hint - 1,
                         !.sqs = Tail(g.sqs)]

\* The body of the for loop of generate_unique past the break test, for the
\* square sq holding num, on the locals g.
remove_step(g, sq, num) ==
    LET s1 == remove_number(g.sudoku, sq, num)
        r == find_other(s1, sq, num, candidates(s1.used_masks, sq), 1)
    IN  IF r.found
          THEN [g EXCEPT !.sudoku = put_number(r.sudoku, sq, num),
                         !.sqs = Tail(g.sqs)]
          ELSE [g EXCEPT !.sudoku = r.sudoku,
                         !.hint = g.hint - 1,
                         !.sqs = Tail(g.sqs)]

InitGen ==
    /\ EngineNotCalled
    /\ parse = NotCalled
    /\ pop = NotCalled
    /\ \E hint_min \in HintMins : gen = TryStart(hint_min)

\* One iteration of the while loop of try_generate_solved; on None the loop
\* of generate_solved calls try_generate_solved again.
TryGenerateSolvedStep ==
    /\ gen.pc = "try_generate_solved"
    /\ ~Bitboard_is_zero(gen.bb_vacant)
    /\ \E sq \in Choices(Bitboard_iter(gen.bb_vacant), SquareChoices) :
         LET nums == candidates(gen.sudoku.used_masks, sq)
         IN  IF nums = <<>>
               THEN gen' = [pc |-> "panic", hint_min |-> gen.hint_min]
               ELSE \E num \in Choices(nums, NumberChoices) : gen' = try_step(gen, sq, num)
    /\ UNCHANGED <<engine_vars, parse, pop>>

\* try_generate_solved and generate_solved return; generate_unique clones
\* the solution, sets hint and shuffles the squares.
GenerateSolvedReturn ==
    /\ gen.pc = "try_generate_solved"
    /\ Bitboard_is_zero(gen.bb_vacant)
    /\ \E sqs \in Shuffles :
         gen' = [pc |-> "remove", hint_min |-> gen.hint_min, sudoku |-> gen.sudoku,
                 solution |-> gen.sudoku, hint |-> Square_NUM, sqs |-> sqs]
    /\ UNCHANGED <<engine_vars, parse, pop>>

\* One iteration of the for loop of generate_unique that does not break.
RemoveStep ==
    /\ gen.pc = "remove"
    /\ gen.sqs # <<>>
    /\ ~hint_reached(gen.hint, gen.hint_min)
    /\ LET sq == Head(gen.sqs)
           num == gen.sudoku.board[sq]
       IN  IF num = NoNumber
             THEN gen' = [pc |-> "panic", hint_min |-> gen.hint_min]
             ELSE gen' = remove_step(gen, sq, num)
    /\ UNCHANGED <<engine_vars, parse, pop>>

\* The for loop ends, by break or with every square visited.
GenerateUniqueReturn ==
    /\ gen.pc = "remove"
    /\ (gen.sqs = <<>> \/ hint_reached(gen.hint, gen.hint_min))
    /\ gen' = [pc |-> "returned", hint_min |-> gen.hint_min, sudoku |-> gen.sudoku,
               solution |-> gen.solution, hint |-> gen.hint, sqs |-> gen.sqs]
    /\ UNCHANGED <<engine_vars, parse, pop>>

NextGen ==
    \/ TryGenerateSolvedStep
    \/ GenerateSolvedReturn
    \/ RemoveStep
    \/ GenerateUniqueReturn

SpecGen == InitGen /\ [][NextGen]_vars

(***************************************************************************)
(* Sudoku::pop_best_vacant_square(&self, &mut bb_vacant), called by the    *)
(* searches: pop holds the position and the bitboard handed in and, once   *)
(* the call has returned, the bitboard on entry, the bitboard left and the *)
(* Option<Square> returned.                                                *)
(***************************************************************************)
\* The positions of the call: the solved grid with pool squares blanked, and
\* the empty grid with up to MaxGiven squares written.
PopPositions ==
    {Sudoku_new(b) : b \in {x \in {Blanked(V) : V \in SUBSET VacancyPool}
                                   \cup Given({Board_empty}, MaxGiven) :
                               Board_new(x).ok}}

\* The bitboards of the call: the sets of squares of the pool and of those
\* the caller writes.
PopBitboards == SUBSET (VacancyPool \cup PutSquares)

InitPop ==
    /\ EngineNotCalled
    /\ parse = NotCalled
    /\ gen = NotCalled
    /\ \E s \in PopPositions : \E bb \in PopBitboards :
         pop = [pc |-> "call", sudoku |-> s, bb_vacant |-> bb]

PopBestVacantSquare ==
    /\ pop.pc = "call"
    /\ LET r == pop_best_vacant_square(pop.sudoku, pop.bb_vacant)
       IN  pop' = [pc |-> "returned", sudoku |-> pop.sudoku, entry |-> pop.bb_vacant,
                   bb_vacant |-> r.bb, some |-> r.some, sq |-> r.sq]
    /\ UNCHANGED <<engine_vars, parse, gen>>

NextPop == PopBestVacantSquare

SpecPop == InitPop /\ [][NextPop]_vars

(***************************************************************************)
(* What the claims speak of, stated on the board alone: the groups of a    *)
(* square by Square::col/row/block, distinctness within groups, and the    *)
(* completions of a board.                                                 *)
(***************************************************************************)
SameGroup(a, b) ==
    \/ Square_col(a) = Square_col(b)
    \/ Square_row(a) = Square_row(b)
    \/ Square_block(a) = Square_block(b)

\* The non-blank numbers of every row, column and block are pairwise distinct.
GroupsDistinct(board) ==
    \A a \in Squares : \A b \in Squares :
        (a < b /\ SameGroup(a, b) /\ board[a] # NoNumber) => board[a] # board[b]

\* All fully filled grids with distinct groups, built a row at a time.
RowFillings == {f \in [Cols -> Numbers] : \A a \in Cols : \A b \in Cols : (a < b) => f[a] # f[b]}

RECURSIVE SolvedUpTo(_)
SolvedUpTo(rows) ==
    IF rows = 0 THEN {Board_empty}
    ELSE {g \in {[sq \in Squares |->
                    IF Square_row(sq) = rows - 1 THEN f[Square_col(sq)] ELSE b[sq]] :
                 b \in SolvedUpTo(rows - 1), f \in RowFillings} :
            GroupsDistinct(g)}

AllSolved == SolvedUpTo(Row_NUM)

Agrees(g, board) == \A sq \in Squares : board[sq] # NoNumber => g[sq] = board[sq]

Completions(board) == {g \in AllSolved : Agrees(g, board)}

\* The position Sudoku::new builds from a board that Board::new accepts.
FromNew(s) == Board_new(s.board).ok /\ s = Sudoku_new(s.board)

Vacant(board) == {sq \in Squares : board[sq] = NoNumber}

\* num is written in a filled square of sq's row, column or block.
UsedInGroups(board, sq, num) ==
    \E q \in Squares : board[q] = num /\ SameGroup(q, sq)

(***************************************************************************)
(* C1: is_solvable() and is_unique_solvable() return with the board and    *)
(* the masks equal to their values on entry, whatever they return.         *)
(***************************************************************************)
C1_ChecksLeavePosition ==
    op \in {"is_solvable", "is_unique_solvable"} => sudoku = pre

\* is_unique_solvable cut the search off at count 2 with squares placed.
C1_Witness ==
    /\ op = "is_unique_solvable"
    /\ ret = "false"
    /\ Cardinality(Completions(pre.board)) >= 3
    /\ Cardinality(Vacant(pre.board)) >= 3
    /\ sudoku = pre

(***************************************************************************)
(* C2: on a position built by new() from a validated board that has a      *)
(* completion, solve() returns true and leaves a completion of that board: *)
(* filled, distinct in every group, equal to the entry board where filled. *)
(***************************************************************************)
C2_SolveCompletes ==
    (op = "solve" /\ FromNew(pre) /\ Completions(pre.board) # {})
        => /\ ret = "true"
           /\ Board_is_solved(sudoku.board)
           /\ GroupsDistinct(sudoku.board)
           /\ Agrees(sudoku.board, pre.board)

C2_Witness ==
    /\ op = "solve"
    /\ FromNew(pre)
    /\ Cardinality(Vacant(pre.board)) >= 3
    /\ ret = "true"
    /\ sudoku.board \in Completions(pre.board)

C4_UniqueIffOneCompletion ==
    (op = "is_unique_solvable" /\ FromNew(pre))
        => (ret = "true" <=> Cardinality(Completions(pre.board)) = 1)

C4_Witness ==
    /\ op = "is_unique_solvable"
    /\ FromNew(pre)
    /\ Cardinality(Vacant(pre.board)) >= 3
    /\ Cardinality(Completions(pre.board)) = 1
    /\ ret = "true"

(***************************************************************************)
(* C5: after any sequence of new(), put(), solve(), is_solvable() and      *)
(* is_unique_solvable(), is_legal(sq, num) holds exactly when num is not   *)
(* written in sq's row, column or block.                                   *)
(***************************************************************************)
C5_TrackerReflectsGrid ==
    \A sq \in Squares : \A num \in Numbers :
        is_legal(sudoku.used_masks, sq, num) <=> ~UsedInGroups(sudoku.board, sq, num)

(***************************************************************************)
(* C8: is_solvable_limited() returns with the board and the masks equal to *)
(* their values on entry under all three results, and with budget 0 the    *)
(* result is None.                                                         *)
(***************************************************************************)
C8_LimitedLeavesPosition ==
    op = "is_solvable_limited"
        => /\ sudoku = pre
           /\ arg = 0 => ret = "None"

\* The budget ran out below the top level, with numbers placed.
C8_Witness ==
    /\ op = "is_solvable_limited"
    /\ ret = "None"
    /\ arg >= 3
    /\ sudoku = pre

(***************************************************************************)
(* C10: is_solvable_limited(budget) returns None exactly when the          *)
(* is_solvable traversal of the same position makes at least budget        *)
(* entries, and then it has made no entry after the one that reached the   *)
(* budget; otherwise it returns what is_solvable returns.                  *)
(***************************************************************************)
C10_LimitedRefinesIsSolvable ==
    op = "is_solvable_limited"
        => LET r == Sudoku_is_solvable(pre)
           IN  /\ ret = "None" <=> r.nodes >= arg
               /\ ret = "None" => nodes = (IF arg = 0 THEN 1 ELSE arg)
               /\ ret # "None" => (ret = BoolStr(r.ret) /\ nodes = r.nodes)

\* The traversal needs exactly budget entries: the last entry aborts it.
C10_Witness ==
    /\ op = "is_solvable_limited"
    /\ arg >= 3
    /\ Sudoku_is_solvable(pre).nodes = arg
    /\ ret = "None"

(***************************************************************************)
(* C9: Board::new, reached through from_str, returns Ok with the array as  *)
(* the board exactly when the numbers of every row, column and block are   *)
(* pairwise distinct; otherwise it returns an error that carries no board. *)
(***************************************************************************)
C9_NewAcceptsIffDistinct ==
    (parse.pc = "returned" /\ parse.validated)
        => /\ parse.ret.ok <=> GroupsDistinct(parse.inner)
           /\ parse.ret.ok => parse.ret.board = parse.inner
           /\ ~parse.ret.ok => "board" \notin DOMAIN parse.ret

\* Three numbers, two of them equal in one block but in different rows and
\* columns: only the block scan rejects the array.
C9_Witness ==
    /\ parse.pc = "returned"
    /\ parse.validated
    /\ Cardinality(Squares \ Vacant(parse.inner)) = MaxNumbers
    /\ ~parse.ret.ok
    /\ parse.ret.err[1] = "block is illegal"
    /\ ~GroupsDistinct(parse.inner)

Filled(board) == Squares \ Vacant(board)

(***************************************************************************)
(* C6: the pair returned by generate_unique(hint_min) is a puzzle and a    *)
(* solution such that the solution is filled and distinct in every group,  *)
(* is_unique_solvable() is true of the puzzle, the solution's board is the *)
(* only completion of the puzzle's board, and solve() on the puzzle        *)
(* returns true and leaves the solution.                                   *)
(***************************************************************************)
C6_GeneratedPuzzleIsUnique ==
    gen.pc = "returned"
        => /\ Board_is_solved(gen.solution.board)
           /\ GroupsDistinct(gen.solution.board)
           /\ Sudoku_is_unique_solvable(gen.sudoku).ret
           /\ Completions(gen.sudoku.board) = {gen.solution.board}
           /\ Sudoku_solve(gen.sudoku) = [sudoku |-> gen.solution, ret |-> TRUE]

\* Every square was visited and most of them were blanked.
C6_Witness ==
    /\ gen.pc = "returned"
    /\ gen.hint_min = 0
    /\ gen.sqs = <<>>
    /\ Cardinality(Filled(gen.sudoku.board)) <= HintMid
    /\ Sudoku_is_unique_solvable(gen.sudoku).ret
    /\ Sudoku_solve(gen.sudoku).sudoku = gen.solution

(***************************************************************************)
(* C7: in the for loop of generate_unique and at its return, hint is the   *)
(* number of filled squares of the working board and at least              *)
(* min(hint_min, Square_NUM) squares are filled; with hint_min =           *)
(* Square_NUM the returned puzzle is the returned solution; and no step    *)
(* taken with at most hint_min squares filled changes the working          *)
(* position.                                                               *)
(***************************************************************************)
C7_InLoop ==
    gen.pc \in {"remove", "returned"}
        => /\ gen.hint = Cardinality(Filled(gen.sudoku.board))
           /\ Cardinality(Filled(gen.sudoku.board))
                >= (IF gen.hint_min < Square_NUM THEN gen.hint_min ELSE Square_NUM)
           /\ (gen.pc = "returned" /\ gen.hint_min = Square_NUM)
                => gen.sudoku = gen.solution

C7_NoRemovalAtHintMin ==
    (gen.pc = "remove" /\ Cardinality(Filled(gen.sudoku.board)) <= gen.hint_min)
        => (gen'.pc = "returned" /\ gen'.sudoku = gen.sudoku)

C7_HintMinRespected == []C7_InLoop /\ [][C7_NoRemovalAtHintMin]_vars

\* The loop broke at hint_min with squares left unvisited.
C7_Witness ==
    /\ gen.pc = "returned"
    /\ gen.hint_min = HintMid
    /\ gen.hint = HintMid
    /\ gen.sqs # <<>>
    /\ Cardinality(Filled(gen.sudoku.board)) = HintMid

(***************************************************************************)
(* C11: pop_best_vacant_square on an empty bitboard returns None and       *)
(* leaves the bitboard empty; otherwise it returns a square of the         *)
(* bitboard whose candidate_count no other square of it undercuts, the     *)
(* least such square, and takes exactly that square out of the bitboard;   *)
(* the position is the one handed in.                                      *)
(***************************************************************************)
C11_PopsFirstLeastSquare ==
    pop.pc = "returned"
        => IF pop.entry = {}
             THEN ~pop.some /\ pop.bb_vacant = {}
             ELSE /\ pop.some
                  /\ pop.sq \in pop.entry
                  /\ \A q \in pop.entry :
                       LET k == candidate_count(pop.sudoku.used_masks, pop.sq)
                           kq == candidate_count(pop.sudoku.used_masks, q)
                       IN  k <= kq /\ (kq = k => pop.sq <= q)
                  /\ pop.bb_vacant = pop.entry \ {pop.sq}

\* A tie for the least count between the returned square and a later one,
\* with an earlier square of a greater count in the bitboard.
C11_Witness ==
    /\ pop.pc = "returned"
    /\ pop.some
    /\ \E q \in pop.entry :
         /\ q > pop.sq
         /\ candidate_count(pop.sudoku.used_masks, q)
              = candidate_count(pop.sudoku.used_masks, pop.sq)
    /\ \E q \in pop.entry :
         /\ q < pop.sq
         /\ candidate_count(pop.sudoku.used_masks, q)
              > candidate_count(pop.sudoku.used_masks, pop.sq)
    /\ pop.bb_vacant = pop.entry \ {pop.sq}

(***************************************************************************)
(* C12: at the start of every iteration of the while loop of               *)
(* try_generate_solved, bb_vacant is the set of the blank squares of the   *)
(* board, the board has a completion and every blank square has a          *)
(* candidate, so the draw of a number never fails; the number drawn last   *)
(* stands on its square, out of bb_vacant, if the search answered true,    *)
(* and if it answered false the board with that number has no completion,  *)
(* the square is blank and back in bb_vacant; and with bb_vacant empty the *)
(* board is filled and distinct in every group.                            *)
(***************************************************************************)
C12_TryGenerateSolvedInvariant ==
    /\ gen.pc # "panic"
    /\ gen.pc = "try_generate_solved"
        => /\ gen.bb_vacant = Vacant(gen.sudoku.board)
           /\ Completions(gen.sudoku.board) # {}
           /\ \A sq \in gen.bb_vacant : candidates(gen.sudoku.used_masks, sq) # <<>>
           /\ (gen.last.drawn /\ gen.last.ok)
                => /\ gen.sudoku.board[gen.last.sq] = gen.last.num
                   /\ gen.last.sq \notin gen.bb_vacant
           /\ (gen.last.drawn /\ ~gen.last.ok)
                => /\ gen.sudoku.board[gen.last.sq] = NoNumber
                   /\ gen.last.sq \in gen.bb_vacant
                   /\ Completions([gen.sudoku.board EXCEPT ![gen.last.sq] = gen.last.num]) = {}
           /\ Bitboard_is_zero(gen.bb_vacant)
                => Board_is_solved(gen.sudoku.board) /\ GroupsDistinct(gen.sudoku.board)

\* A legal number was drawn for a square of a partly filled board, the board
\* with it had no completion, and the placement was undone.
C12_Witness ==
    /\ gen.pc = "try_generate_solved"
    /\ gen.last.drawn
    /\ ~gen.last.ok
    /\ ~UsedInGroups(gen.sudoku.board, gen.last.sq, gen.last.num)
    /\ Cardinality(Filled(gen.sudoku.board)) >= BlockDim
    /\ gen.sudoku.board[gen.last.sq] = NoNumber
    /\ gen.last.sq \in gen.bb_vacant
    /\ Completions(gen.sudoku.board) # {}

(***************************************************************************)
(* C13: an iteration of the for loop of generate_unique on square sq       *)
(* holding num leaves sq blank and hint one less exactly when no number    *)
(* other than num that is written nowhere in the groups of sq, once sq is  *)
(* blank, gives a board with a completion; otherwise it leaves the         *)
(* position and hint as they were.  After every iteration the working      *)
(* board agrees with the solution where it is filled and the solution is   *)
(* its only completion.                                                    *)
(***************************************************************************)
C13_AfterIteration ==
    gen.pc \in {"remove", "returned"}
        => /\ Agrees(gen.solution.board, gen.sudoku.board)
           /\ Completions(gen.sudoku.board) = {gen.solution.board}

C13_Iteration ==
    (gen.pc = "remove" /\ gen'.pc = "remove")
        => LET sq == Head(gen.sqs)
               num == gen.sudoku.board[sq]
               blanked == [gen.sudoku.board EXCEPT ![sq] = NoNumber]
               other == \E d \in Numbers \ {num} :
                           /\ ~UsedInGroups(blanked, sq, d)
                           /\ Completions([blanked EXCEPT ![sq] = d]) # {}
           IN  /\ gen'.sqs = Tail(gen.sqs)
               /\ num # NoNumber
               /\ IF other
                    THEN gen'.sudoku = gen.sudoku /\ gen'.hint = gen.hint
                    ELSE /\ gen'.sudoku.board = blanked
                         /\ gen'.sudoku = Sudoku_new(blanked)
                         /\ gen'.hint = gen.hint - 1

C13_RemovalKeptIffNoOther == []C13_AfterIteration /\ [][C13_Iteration]_vars

\* Of the squares visited, one was blanked and one, whose row, column and
\* block had a blank already, got its number back.
C13_Witness ==
    /\ gen.pc = "remove"
    /\ LET visited == Squares \ {gen.sqs[i] : i \in 1 .. Len(gen.sqs)}
       IN  /\ \E sq \in visited : gen.sudoku.board[sq] = NoNumber
           /\ \E sq \in visited :
                /\ gen.sudoku.board[sq] # NoNumber
                /\ \E d \in Numbers \ {gen.sudoku.board[sq]} :
                     ~UsedInGroups([gen.sudoku.board EXCEPT ![sq] = NoNumber], sq, d)
    /\ gen.hint = Cardinality(Filled(gen.sudoku.board))
    /\ Completions(gen.sudoku.board) = {gen.solution.board}

(***************************************************************************)
(* C14: the puzzle returned by generate_unique(0), every square having     *)
(* been visited once, is irreducible: the board with any one of its filled *)
(* squares blanked has two or more completions.                            *)
(***************************************************************************)
C14_ReturnedPuzzleIrreducible ==
    (gen.pc = "returned" /\ gen.hint_min = 0)
        => /\ gen.sqs = <<>>
           /\ \A sq \in Filled(gen.sudoku.board) :
                Cardinality(Completions([gen.sudoku.board EXCEPT ![sq] = NoNumber])) >= 2

\* A returned puzzle with squares blanked and squares kept, each kept square
\* needed, and the solution as the only completion.
C14_Witness ==
    /\ gen.pc = "returned"
    /\ gen.hint_min = 0
    /\ gen.sqs = <<>>
    /\ Cardinality(Filled(gen.sudoku.board)) >= BlockDim
    /\ Cardinality(Vacant(gen.sudoku.board)) >= Number_NUM
    /\ Completions(gen.sudoku.board) = {gen.solution.board}
    /\ \A sq \in Filled(gen.sudoku.board) :
         Cardinality(Completions([gen.sudoku.board EXCEPT ![sq] = NoNumber])) >= 2

=============================================================================
